---- MODULE Spec2Model ----
(***************************************************************************)
(* FlexibleScreen (src/src/components/FlexibleScreen.tsx): a three-region  *)
(* split layout with two dividers.  The model covers the component's state *)
(* (topPct, leftPct, dragRef), the body's select-none class, localStorage, *)
(* and one action per handler: mount (readStored + useState + effects),    *)
(* unmount, pointer-down (startDrag), pointer-move (onPointerMove),        *)
(* pointer-up/cancel (stopDragging) and key-down on either handle.         *)
(*                                                                         *)
(* JavaScript numbers are records [tag, v]: a finite number, NaN, the two  *)
(* infinities, plus the non-number values undefined and null that the code *)
(* tests with ?? and typeof.  Pointer coordinates and rectangle sizes are  *)
(* drawn from sets on which (x / width) * 100 is an exact integer in       *)
(* binary floating point, so integer arithmetic computes what the code     *)
(* computes.                                                               *)
(***************************************************************************)
EXTENDS Integers, Sequences, FiniteSets, TLC

VARIABLES
    minTopPct, minBottomPct, minLeftPct, minRightPct, \* props (lines 19-22)
    storageKey,      \* prop (line 24): a key, or null
    storeMode,       \* environment: "ok", "unavailable" (every access throws), "quota" (setItem throws)
    localStorage,    \* key -> item; an item is [present, text]
    mounted,         \* the component is mounted and its window listeners registered
    topPct, leftPct, \* useState values (lines 55-56)
    dragRef,         \* dragRef.current (line 68): null, "horizontal" or "vertical"
    selectNone,      \* document.body carries the class select-none
    captured,        \* the pointers a handle holds in capture (setPointerCapture, line 133)
    nKeys,           \* key-down events dispatched so far (bounds the exploration)
    saved,           \* the last pair written by a successful setItem, or NoPair
    run,             \* the run of identical key-downs ending with ev: its length, and the ratio before it
    ev,              \* the last event dispatched, with its inputs (for a mount: the initial
                     \* prop and the item then under the key) and whether its handler threw
    probe            \* clamp applied on its own: the arguments, and the results of applying it
                     \* once and twice

vars == <<minTopPct, minBottomPct, minLeftPct, minRightPct, storageKey, storeMode,
          localStorage, mounted, topPct, leftPct, dragRef, selectNone, captured, nKeys, saved,
          run, ev, probe>>

config == <<minTopPct, minBottomPct, minLeftPct, minRightPct, storageKey, storeMode>>

----------------------------------------------------------------------------
(* JavaScript values *)

Num(n) == [tag |-> "number", v |-> n]
NaN == [tag |-> "NaN", v |-> 0]
PosInfinity == [tag |-> "Infinity", v |-> 1]
NegInfinity == [tag |-> "Infinity", v |-> -1]
undefined == [tag |-> "undefined", v |-> 0]
jsnull == [tag |-> "null", v |-> 0]
null == "null"

IsFinite(a) == a.tag = "number"

\* typeof x === 'number' (NaN and the infinities are numbers too)
TypeofNumber(a) == a.tag \in {"number", "NaN", "Infinity"}

\* a ?? b
Nullish(a, b) == IF a.tag \in {"undefined", "null"} THEN b ELSE a

\* a < b on numbers; any comparison with NaN is false
JsLess(a, b) ==
    CASE a.tag = "NaN" \/ b.tag = "NaN" -> FALSE
      [] a.tag = "number" /\ b.tag = "number" -> a.v < b.v
      [] a.tag = "Infinity" /\ b.tag = "Infinity" -> a.v < b.v
      [] a.tag = "Infinity" -> a.v < 0
      [] OTHER -> b.v > 0

\* the conversion Math.max and Math.min apply to an argument
ToNumber(a) ==
    CASE a.tag = "undefined" -> NaN
      [] a.tag = "null" -> Num(0)
      [] OTHER -> a

MathMax(a, b) ==
    IF ToNumber(a).tag = "NaN" \/ ToNumber(b).tag = "NaN" THEN NaN
    ELSE IF JsLess(ToNumber(a), ToNumber(b)) THEN ToNumber(b) ELSE ToNumber(a)

MathMin(a, b) ==
    IF ToNumber(a).tag = "NaN" \/ ToNumber(b).tag = "NaN" THEN NaN
    ELSE IF JsLess(ToNumber(b), ToNumber(a)) THEN ToNumber(b) ELSE ToNumber(a)

\* a + n for a finite n
JsAdd(a, n) == IF a.tag = "number" THEN Num(a.v + n) ELSE a

\* (a / b) * 100 for finite integers a, b; exact on the coordinates used here
PctOf(a, b) ==
    IF b = 0
    THEN (IF a > 0 THEN PosInfinity ELSE IF a < 0 THEN NegInfinity ELSE NaN)
    ELSE Num((a * 100) \div b)

----------------------------------------------------------------------------
(* line 32 *)

clampWrap(v, min, max) ==
    IF v.tag = "number" /\ min.tag = "number" /\ max.tag = "number" /\ v.v > max.v
    THEN Num(min.v + (v.v - max.v))
    ELSE MathMin(MathMax(v, min), max)

clampMaxFirst(v, min, max) == MathMax(MathMin(v, max), min)

\* line 32
clamp(v, min, max) == MathMin(MathMax(v, min), max)

----------------------------------------------------------------------------
(* JSON text, as a sequence of tokens: punctuation, quoted keys, the word  *)
(* null, and the characters of a number.  JSONStringify and JSONParse are  *)
(* the two library calls of lines 39 and 63, restricted to flat objects.   *)

DigitChars == <<"0", "1", "2", "3", "4", "5", "6", "7", "8", "9">>

IsDigit(c) == \E i \in 1..10 : DigitChars[i] = c

DigitValue(c) == (CHOOSE i \in 1..10 : DigitChars[i] = c) - 1

RECURSIVE Digits(_)
Digits(n) == IF n < 10 THEN <<DigitChars[n + 1]>>
             ELSE Digits(n \div 10) \o <<DigitChars[(n % 10) + 1]>>

\* a number as JSON.stringify writes it: NaN and the infinities become null
NumText(a) ==
    IF a.tag = "number"
    THEN (IF a.v < 0 THEN <<"-">> \o Digits(-a.v) ELSE Digits(a.v))
    ELSE <<"null">>

KeyTop == "\"topPct\""
KeyLeft == "\"leftPct\""
KeyOther == "\"x\""

JSONStringifyTopOnly(t, l) == <<"{", KeyTop, ":">> \o NumText(t) \o <<"}">>

\* line 63: JSON.stringify({ topPct, leftPct })
JSONStringify(t, l) ==
    <<"{", KeyTop, ":">> \o NumText(t) \o <<",", KeyLeft, ":">> \o NumText(l) \o <<"}">>

RECURSIVE DigitsValue(_)
DigitsValue(s) == IF Len(s) = 0 THEN 0
                  ELSE 10 * DigitsValue(SubSeq(s, 1, Len(s) - 1)) + DigitValue(s[Len(s)])

IsDigitsText(s) ==
    /\ Len(s) >= 1
    /\ \A i \in 1..Len(s) : IsDigit(s[i])
    /\ (Len(s) > 1 => s[1] # "0")

\* a JSON scalar: null, or an integer literal; anything else is a syntax error
ParseScalar(s) ==
    IF s = <<"null">> THEN [ok |-> TRUE, val |-> jsnull]
    ELSE IF IsDigitsText(s) THEN [ok |-> TRUE, val |-> Num(DigitsValue(s))]
    ELSE IF Len(s) >= 2 /\ s[1] = "-" /\ IsDigitsText(Tail(s))
         THEN [ok |-> TRUE, val |-> Num(0 - DigitsValue(Tail(s)))]
    ELSE [ok |-> FALSE, val |-> undefined]

\* one member, key : scalar
ParseMember(m) ==
    IF Len(m) >= 3 /\ m[1] \in {KeyTop, KeyLeft, KeyOther} /\ m[2] = ":"
    THEN [ok |-> ParseScalar(SubSeq(m, 3, Len(m))).ok, key |-> m[1],
          val |-> ParseScalar(SubSeq(m, 3, Len(m))).val]
    ELSE [ok |-> FALSE, key |-> "", val |-> undefined]

\* where the members of s start: at 1 and after every ","
MemberStarts(s) == {1} \cup { i + 1 : i \in { j \in 1..Len(s) : s[j] = "," } }

\* the member of s that starts at a: up to the next "," or the end
MemberAt(s, a) ==
    IF \E i \in a..Len(s) : s[i] = ","
    THEN SubSeq(s, a, (CHOOSE i \in a..Len(s) : s[i] = "," /\ \A j \in a..(i - 1) : s[j] # ",") - 1)
    ELSE SubSeq(s, a, Len(s))

\* the value of key k among the members: the last member with that key, or undefined
MemberValue(s, k) ==
    IF \E a \in MemberStarts(s) : ParseMember(MemberAt(s, a)).key = k
    THEN ParseMember(MemberAt(s, CHOOSE a \in MemberStarts(s) :
                /\ ParseMember(MemberAt(s, a)).key = k
                /\ \A b \in MemberStarts(s) : ParseMember(MemberAt(s, b)).key = k => b <= a)).val
    ELSE undefined

\* the members of an object, separated by ","
ParseMembers(s) ==
    [ok |-> \A a \in MemberStarts(s) : ParseMember(MemberAt(s, a)).ok,
     topPct |-> MemberValue(s, KeyTop),
     leftPct |-> MemberValue(s, KeyLeft)]

\* line 39: JSON.parse(raw), read through parsed?.topPct and parsed?.leftPct.
\* threw: a SyntaxError.  A scalar or null has neither property.
JSONParse(s) ==
    IF Len(s) >= 2 /\ s[1] = "{" /\ s[Len(s)] = "}"
    THEN IF Len(s) = 2
         THEN [threw |-> FALSE, topPct |-> undefined, leftPct |-> undefined]
         ELSE [threw |-> ~ParseMembers(SubSeq(s, 2, Len(s) - 1)).ok,
               topPct |-> ParseMembers(SubSeq(s, 2, Len(s) - 1)).topPct,
               leftPct |-> ParseMembers(SubSeq(s, 2, Len(s) - 1)).leftPct]
    ELSE [threw |-> ~ParseScalar(s).ok, topPct |-> undefined, leftPct |-> undefined]

----------------------------------------------------------------------------
(* Inputs: the props a caller may pass, the store's content before the     *)
(* first mount, and the geometry and pointer positions of a move.          *)

MaxKeys == 1
MaxPresses == 6

\* <<minTopPct, minBottomPct, minLeftPct, minRightPct>>: the defaults (lines 19-22, and
\* the App's values), a narrow layout that excludes 66 and 50, and one empty range per axis
Configs == { <<20, 20, 15, 15>>, <<70, 20, 60, 15>>, <<20, 20, 60, 60>>, <<70, 40, 15, 15>> }

StorageKeys == {"flexible-screen-layout"}

\* the initial prop: omitted, {}, the App's value (part_000 line 12), an out-of-range one
NoInitial == [given |-> FALSE, topPct |-> undefined, leftPct |-> undefined]
InitialChoices ==
    { NoInitial,
      [given |-> TRUE, topPct |-> undefined, leftPct |-> undefined],
      [given |-> TRUE, topPct |-> Num(70), leftPct |-> Num(50)],
      [given |-> TRUE, topPct |-> Num(10), leftPct |-> Num(90)] }

NoItem == [present |-> FALSE, text |-> <<>>]
Item(t) == [present |-> TRUE, text |-> t]

ValidItem == Item(<<"{", KeyTop, ":", "7", "0", ",", KeyLeft, ":", "4", "0", "}">>)

ClampedItem == Item(<<"{", KeyTop, ":", "9", "5", ",", KeyLeft, ":", "5", "}">>)

StoredChoices ==
    { NoItem,
      Item(<<"not", "json">>),
      Item(<<"{", KeyTop, ":", "7", "0", "}">>),
      ValidItem,
      ClampedItem }

\* <<storageKey, storeMode, the item under the key>>
Environments ==
    ({"flexible-screen-layout"} \X {"ok"} \X StoredChoices)
    \cup ({"flexible-screen-layout"} \X {"quota", "unavailable"} \X {ValidItem})
    \cup ({null} \X {"ok"} \X {ValidItem})

Rect(l, t, w, h) == [left |-> l, top |-> t, width |-> w, height |-> h]
ZeroRect == Rect(0, 0, 0, 0)
\* <<the surface's rectangle, the top region's rectangle>>: laid out, and not measurable
Geometries == { <<Rect(0, 100, 200, 400), Rect(100, 100, 400, 200)>>, <<ZeroRect, ZeroRect>> }

\* clientX, clientY: before, at and after a rectangle's origin
Coords == {0, 100, 300}

Keys == {"ArrowLeft", "ArrowRight", "ArrowUp", "ArrowDown", "Home", "Enter"}

\* the arguments clamp is applied to on its own
MaxProbe == 6
ClampValues == {Num(20 * i - 20) : i \in 0..MaxProbe} \cup {NaN, PosInfinity, NegInfinity}
ClampBounds == {Num(20 * i) : i \in 0..MaxProbe}

NoProbe == [n |-> 0, x |-> undefined, min |-> undefined, max |-> undefined,
            once |-> undefined, twice |-> undefined]

NoPair == [set |-> FALSE, topPct |-> undefined, leftPct |-> undefined]

NoRun == [n |-> 0, from |-> undefined]

NoEvent ==
    [kind |-> "none", target |-> "", key |-> "", pointerId |-> 0, clientX |-> 0, clientY |-> 0,
     containerRect |-> ZeroRect, topAreaRect |-> ZeroRect, initial |-> NoInitial,
     item |-> NoItem, defaultPrevented |-> FALSE, threw |-> FALSE]

----------------------------------------------------------------------------
(* lines 34-51 *)

NoStored == [found |-> FALSE, threw |-> FALSE, topPct |-> undefined, leftPct |-> undefined]

\* the body of the try block (lines 37-48); threw: an exception left it
readStoredTry ==
    IF storeMode = "unavailable" THEN [NoStored EXCEPT !.threw = TRUE]
    ELSE LET raw == localStorage[storageKey]
         IN  IF ~raw.present \/ raw.text = <<>> THEN NoStored
             ELSE LET parsed == JSONParse(raw.text)
                  IN  IF parsed.threw THEN [NoStored EXCEPT !.threw = TRUE]
                      ELSE IF TypeofNumber(parsed.topPct) /\ TypeofNumber(parsed.leftPct)
                      THEN [found |-> TRUE, threw |-> FALSE,
                            topPct |-> clamp(parsed.topPct, Num(minTopPct), Num(100 - minBottomPct)),
                            leftPct |-> clamp(parsed.leftPct, Num(minLeftPct), Num(100 - minRightPct))]
                      ELSE NoStored

readStoredNoCatch ==
    IF storageKey = null THEN NoStored ELSE readStoredTry

readStored ==
    IF storageKey = null THEN NoStored
    ELSE IF readStoredTry.threw THEN NoStored
    ELSE readStoredTry

\* line 23: the default of the initial prop
initialProp(p) == IF p.given THEN p ELSE [given |-> TRUE, topPct |-> Num(65), leftPct |-> Num(50)]

\* lines 55-56: the useState initial values
initialTopPct(p) ==
    IF readStored.found THEN readStored.topPct ELSE Nullish(initialProp(p).topPct, Num(65))

initialLeftPct(p) ==
    IF readStored.found THEN readStored.leftPct ELSE Nullish(initialProp(p).leftPct, Num(50))

persistenceEffectAfterFirstRender(t, l) ==
    IF mounted /\ storageKey # null /\ storeMode = "ok"
    THEN /\ localStorage' = [localStorage EXCEPT ![storageKey] = Item(JSONStringify(t, l))]
         /\ saved' = [set |-> TRUE, topPct |-> t, leftPct |-> l]
    ELSE UNCHANGED <<localStorage, saved>>

\* lines 58-66: the persistence effect, run with the values t, l
persistenceEffect(t, l) ==
    IF storageKey # null /\ storeMode = "ok"
    THEN /\ localStorage' = [localStorage EXCEPT ![storageKey] = Item(JSONStringify(t, l))]
         /\ saved' = [set |-> TRUE, topPct |-> t, leftPct |-> l]
    ELSE UNCHANGED <<localStorage, saved>>

\* line 62: setItem throws when the store refuses the write
setItemThrows == storeMode # "ok"

persistenceEffectUncaught ==
    IF storageKey = null THEN FALSE ELSE setItemThrows

\* lines 59-65: whether an exception leaves the effect
persistenceEffectThrows ==
    IF storageKey = null THEN FALSE      \* line 59: return
    ELSE IF setItemThrows THEN FALSE     \* line 65: catch {}
    ELSE FALSE                           \* lines 61-64 ran to the end

afterRenderTopOnly(t, l) ==
    IF t # topPct THEN persistenceEffect(t, l)
    ELSE UNCHANGED <<localStorage, saved>>

\* the effect's dependency list (line 66): it runs again only when a value changed
afterRender(t, l) ==
    IF <<t, l>> # <<topPct, leftPct>> THEN persistenceEffect(t, l)
    ELSE UNCHANGED <<localStorage, saved>>

\* whether the effect run after rendering t, l throws
afterRenderThrows(t, l) ==
    <<t, l>> # <<topPct, leftPct>> /\ persistenceEffectThrows

----------------------------------------------------------------------------
(* Mount: the first render (lines 53-56), then the two effects (58-66 and  *)
(* 93-103).  Unmount: the listener effect's cleanup (lines 98-102); the    *)
(* component's state and its dragRef go with the instance.                 *)

Mount(p) ==
    /\ ~mounted
    /\ mounted' = TRUE
    /\ topPct' = initialTopPct(p)
    /\ leftPct' = initialLeftPct(p)
    /\ dragRef' = null
    /\ captured' = {}
    /\ persistenceEffect(initialTopPct(p), initialLeftPct(p))
    /\ ev' = [NoEvent EXCEPT !.kind = "mount", !.initial = p, !.threw = (readStored.threw \/ persistenceEffectThrows),
                             !.item = IF storageKey = null THEN NoItem ELSE localStorage[storageKey]]
    /\ run' = NoRun
    /\ UNCHANGED <<config, probe, selectNone, nKeys>>

Unmount ==
    /\ mounted
    /\ mounted' = FALSE
    /\ topPct' = undefined
    /\ leftPct' = undefined
    /\ dragRef' = null
    /\ captured' = {}
    /\ ev' = [NoEvent EXCEPT !.kind = "unmount"]
    /\ run' = NoRun
    /\ UNCHANGED <<config, probe, localStorage, selectNone, nKeys, saved>>

----------------------------------------------------------------------------
(* lines 131-135 *)

startDrag(type, pointerId) ==
    /\ mounted
    /\ dragRef' = type
    /\ captured' = captured \cup {pointerId}
    /\ selectNone' = TRUE
    /\ ev' = [NoEvent EXCEPT !.kind = "pointerdown", !.target = type, !.pointerId = pointerId]
    /\ run' = NoRun
    /\ UNCHANGED <<config, probe, localStorage, mounted, topPct, leftPct, nKeys, saved>>

(* lines 70-86 *)

\* lines 74-77
nextTopPct(clientY, rect) ==
    clamp(PctOf(clientY - rect.top, rect.height), Num(minTopPct), Num(100 - minBottomPct))

nextLeftPctNoOrigin(clientX, rect) ==
    clamp(PctOf(clientX, rect.width), Num(minLeftPct), Num(100 - minRightPct))

\* lines 80-83
nextLeftPct(clientX, rect) ==
    clamp(PctOf(clientX - rect.left, rect.width), Num(minLeftPct), Num(100 - minRightPct))

\* line 74: the horizontal divider measures containerRef, the whole surface
horizontalRect(containerRect, topAreaRect) == containerRect

\* line 80: the vertical divider measures topAreaRef, the top region
verticalRectContainer(containerRect, topAreaRect) == containerRect

verticalRect(containerRect, topAreaRect) == topAreaRect

\* line 71: if (!dragRef.current) return
dragActiveAlways == TRUE

dragActive == dragRef # null

onPointerMove(clientX, clientY, containerRect, topAreaRect) ==
    /\ mounted
    /\ run' = NoRun
    /\ IF ~dragActive
       THEN UNCHANGED <<topPct, leftPct, localStorage, saved>>
       ELSE IF dragRef = "horizontal"
       THEN LET rect == horizontalRect(containerRect, topAreaRect)
            IN  /\ topPct' = nextTopPct(clientY, rect)
                /\ leftPct' = leftPct
                /\ afterRender(nextTopPct(clientY, rect), leftPct)
       ELSE LET rect == verticalRect(containerRect, topAreaRect)
            IN  /\ leftPct' = nextLeftPct(clientX, rect)
                /\ topPct' = topPct
                /\ afterRender(topPct, nextLeftPct(clientX, rect))
    /\ ev' = [NoEvent EXCEPT !.kind = "pointermove", !.clientX = clientX, !.clientY = clientY,
                             !.containerRect = containerRect, !.topAreaRect = topAreaRect,
                             !.threw = afterRenderThrows(topPct', leftPct')]
    /\ UNCHANGED <<config, probe, mounted, dragRef, selectNone, captured, nKeys>>

(* lines 88-91, reached through onUp (line 94) for pointerup and pointercancel *)

(* the browser releases a pointer's capture when that pointer goes up or is *)
(* cancelled; the handler reads nothing of the event                       *)

stopDraggingKeepsSession(kind, pointerId) ==
    /\ mounted
    /\ UNCHANGED <<dragRef, selectNone>>
    /\ captured' = captured \ {pointerId}
    /\ ev' = [NoEvent EXCEPT !.kind = kind, !.pointerId = pointerId]
    /\ run' = NoRun
    /\ UNCHANGED <<config, probe, localStorage, mounted, topPct, leftPct, nKeys, saved>>

stopDraggingOwnPointer(kind, pointerId) ==
    /\ mounted
    /\ dragRef' = IF pointerId \in captured THEN null ELSE dragRef
    /\ selectNone' = IF pointerId \in captured THEN FALSE ELSE selectNone
    /\ captured' = captured \ {pointerId}
    /\ ev' = [NoEvent EXCEPT !.kind = kind, !.pointerId = pointerId]
    /\ run' = NoRun
    /\ UNCHANGED <<config, probe, localStorage, mounted, topPct, leftPct, nKeys, saved>>

stopDragging(kind, pointerId) ==
    /\ mounted
    /\ dragRef' = null
    /\ selectNone' = FALSE
    /\ captured' = captured \ {pointerId}
    /\ ev' = [NoEvent EXCEPT !.kind = kind, !.pointerId = pointerId]
    /\ run' = NoRun
    /\ UNCHANGED <<config, probe, localStorage, mounted, topPct, leftPct, nKeys, saved>>

----------------------------------------------------------------------------
(* lines 105-129 *)

step == 2

verticalKeyValueUnclamped(key, v) ==
    CASE key = "ArrowLeft" -> JsAdd(v, 0 - step)
      [] key = "ArrowRight" -> JsAdd(v, step)
      [] key = "Home" -> Num(50)
      [] OTHER -> v

\* lines 109, 112, 115: the new leftPct for a handled key
verticalKeyValue(key, v) ==
    CASE key = "ArrowLeft" -> clamp(JsAdd(v, 0 - step), Num(minLeftPct), Num(100 - minRightPct))
      [] key = "ArrowRight" -> clamp(JsAdd(v, step), Num(minLeftPct), Num(100 - minRightPct))
      [] key = "Home" -> Num(50)
      [] OTHER -> v

\* lines 121, 124, 127: the new topPct for a handled key
horizontalKeyValue(key, v) ==
    CASE key = "ArrowUp" -> clamp(JsAdd(v, 0 - step), Num(minTopPct), Num(100 - minBottomPct))
      [] key = "ArrowDown" -> clamp(JsAdd(v, step), Num(minTopPct), Num(100 - minBottomPct))
      [] key = "Home" -> Num(66)
      [] OTHER -> v

VerticalKeysAll == Keys

\* lines 108-116 and 120-128: the keys whose branch calls e.preventDefault()
VerticalKeys == {"ArrowLeft", "ArrowRight", "Home"}
HorizontalKeys == {"ArrowUp", "ArrowDown", "Home"}

handleVerticalKeyResetsBoth(key) ==
    /\ mounted
    /\ nKeys' = nKeys + 1
    /\ leftPct' = verticalKeyValue(key, leftPct)
    /\ topPct' = IF key = "Home" THEN Num(66) ELSE topPct
    /\ afterRender(topPct', leftPct')
    /\ ev' = [NoEvent EXCEPT !.kind = "keydown", !.target = "vertical", !.key = key,
                             !.defaultPrevented = (key \in VerticalKeys),
                             !.threw = afterRenderThrows(topPct', leftPct')]
    /\ run' = IF ev.kind = "keydown" /\ ev.target = "vertical" /\ ev.key = key
              THEN [run EXCEPT !.n = @ + 1]
              ELSE [n |-> 1, from |-> leftPct]
    /\ UNCHANGED <<config, probe, mounted, dragRef, selectNone, captured>>

handleVerticalKey(key) ==
    /\ mounted
    /\ nKeys' = nKeys + 1
    /\ leftPct' = verticalKeyValue(key, leftPct)
    /\ topPct' = topPct
    /\ afterRender(topPct, verticalKeyValue(key, leftPct))
    /\ ev' = [NoEvent EXCEPT !.kind = "keydown", !.target = "vertical", !.key = key,
                             !.defaultPrevented = (key \in VerticalKeys),
                             !.threw = afterRenderThrows(topPct, verticalKeyValue(key, leftPct))]
    /\ run' = IF ev.kind = "keydown" /\ ev.target = "vertical" /\ ev.key = key
              THEN [run EXCEPT !.n = @ + 1]
              ELSE [n |-> 1, from |-> leftPct]
    /\ UNCHANGED <<config, probe, mounted, dragRef, selectNone, captured>>

handleHorizontalKey(key) ==
    /\ mounted
    /\ nKeys' = nKeys + 1
    /\ topPct' = horizontalKeyValue(key, topPct)
    /\ leftPct' = leftPct
    /\ afterRender(horizontalKeyValue(key, topPct), leftPct)
    /\ ev' = [NoEvent EXCEPT !.kind = "keydown", !.target = "horizontal", !.key = key,
                             !.defaultPrevented = (key \in HorizontalKeys),
                             !.threw = afterRenderThrows(horizontalKeyValue(key, topPct), leftPct)]
    /\ run' = IF ev.kind = "keydown" /\ ev.target = "horizontal" /\ ev.key = key
              THEN [run EXCEPT !.n = @ + 1]
              ELSE [n |-> 1, from |-> topPct]
    /\ UNCHANGED <<config, probe, mounted, dragRef, selectNone, captured>>

----------------------------------------------------------------------------

InitComponent ==
    /\ \E c \in Configs :
          /\ minTopPct = c[1]
          /\ minBottomPct = c[2]
          /\ minLeftPct = c[3]
          /\ minRightPct = c[4]
    /\ \E e \in Environments :
          /\ storageKey = e[1]
          /\ storeMode = e[2]
          /\ localStorage = [k \in StorageKeys |-> e[3]]
    /\ mounted = FALSE
    /\ topPct = undefined
    /\ leftPct = undefined
    /\ dragRef = null
    /\ selectNone = FALSE
    /\ captured = {}
    /\ nKeys = 0
    /\ saved = NoPair
    /\ run = NoRun
    /\ ev = NoEvent

Init == InitComponent /\ probe = NoProbe

Next ==
    \/ \E p \in InitialChoices : Mount(p)
    \/ Unmount
    \/ \E type \in {"horizontal", "vertical"} : startDrag(type, 1)
    \/ \E x \in Coords, y \in Coords, g \in Geometries : onPointerMove(x, y, g[1], g[2])
    \/ \E kind \in {"pointerup", "pointercancel"} : stopDragging(kind, 1)
    \/ \E key \in Keys : nKeys < MaxKeys /\ handleVerticalKey(key)
    \/ \E key \in Keys : nKeys < MaxKeys /\ handleHorizontalKey(key)

Spec == Init /\ [][Next]_vars

(* The keyboard alone, with a working store, for longer runs of presses *)

InitKeyboard ==
    /\ Init
    /\ storeMode = "ok"
    /\ localStorage[CHOOSE k \in StorageKeys : TRUE] \in {NoItem, ClampedItem}

NextKeyboard ==
    \/ \E p \in InitialChoices : Mount(p)
    \/ \E key \in Keys : nKeys < MaxPresses /\ handleVerticalKey(key)
    \/ \E key \in Keys : nKeys < MaxPresses /\ handleHorizontalKey(key)

SpecKeyboard == InitKeyboard /\ [][NextKeyboard]_vars

(* The pointer events alone, from several pointers, under the default      *)
(* bounds and without a storage key                                        *)

MaxPointers == 2
Pointers == 1..MaxPointers

InitPointers ==
    /\ Init
    /\ <<minTopPct, minBottomPct, minLeftPct, minRightPct>> = <<20, 20, 15, 15>>
    /\ storageKey = null

NextPointers ==
    \/ \E p \in InitialChoices : Mount(p)
    \/ \E type \in {"horizontal", "vertical"}, id \in Pointers : startDrag(type, id)
    \/ \E x \in Coords, y \in Coords, g \in Geometries : onPointerMove(x, y, g[1], g[2])
    \/ \E kind \in {"pointerup", "pointercancel"}, id \in Pointers : stopDragging(kind, id)

SpecPointers == InitPointers /\ [][NextPointers]_vars

(* clamp (line 32) on its own: applied to its arguments, then to its result *)

component == <<minTopPct, minBottomPct, minLeftPct, minRightPct, storageKey, storeMode,
               localStorage, mounted, topPct, leftPct, dragRef, selectNone, captured, nKeys,
               saved, run, ev>>

InitClamp ==
    /\ InitComponent
    /\ <<minTopPct, minBottomPct, minLeftPct, minRightPct>> = <<20, 20, 15, 15>>
    /\ storageKey = null
    /\ \E x \in ClampValues, min \in ClampBounds, max \in ClampBounds :
          probe = [NoProbe EXCEPT !.x = x, !.min = min, !.max = max]

clampOnce ==
    /\ probe.n = 0
    /\ probe' = [probe EXCEPT !.n = 1, !.once = clamp(probe.x, probe.min, probe.max)]
    /\ UNCHANGED component

clampTwice ==
    /\ probe.n = 1
    /\ probe' = [probe EXCEPT !.n = 2, !.twice = clamp(probe.once, probe.min, probe.max)]
    /\ UNCHANGED component

NextClamp == clampOnce \/ clampTwice

SpecClamp == InitClamp /\ [][NextClamp]_vars

----------------------------------------------------------------------------
(* Properties.  The expected values are written with integer arithmetic,   *)
(* apart from the model's JavaScript operators.                            *)

InRange(a, lo, hi) == a.tag = "number" /\ lo <= a.v /\ a.v <= hi

ValidConfig == minTopPct + minBottomPct <= 100 /\ minLeftPct + minRightPct <= 100

\* min(max(v, lo), hi) on integers
IntClamp(v, lo, hi) ==
    IF (IF v < lo THEN lo ELSE v) > hi THEN hi ELSE (IF v < lo THEN lo ELSE v)

\* clamp(100 * (pos - origin) / extent, lo, hi) for a measurable extent
PctClamped(pos, origin, extent, lo, hi) ==
    Num(IntClamp((100 * (pos - origin)) \div extent, lo, hi))

OrElse(a, d) == IF a.tag = "undefined" THEN Num(d) ELSE a

(* C1. Clamp invariant: in every reachable state of a mounted component    *)
(* with bounds that leave a range, topPct lies in [minTopPct, 100 -        *)
(* minBottomPct] and leftPct in [minLeftPct, 100 - minRightPct].           *)
C1_ClampInvariant ==
    (mounted /\ ValidConfig) =>
        /\ InRange(topPct, minTopPct, 100 - minBottomPct)
        /\ InRange(leftPct, minLeftPct, 100 - minRightPct)

(* C2. Initialization yields a clamped state: the stored values clamped    *)
(* when the store holds a usable pair, and otherwise initial.topPct ?? 65  *)
(* and initial.leftPct ?? 50 clamped into their ranges.                    *)
C2Usable(item) ==
    /\ storageKey # null /\ storeMode # "unavailable"
    /\ item.present /\ item.text # <<>>
    /\ ~JSONParse(item.text).threw
    /\ IsFinite(JSONParse(item.text).topPct) /\ IsFinite(JSONParse(item.text).leftPct)

C2_InitClamped ==
    (ev.kind = "mount" /\ ValidConfig) =>
        /\ topPct = Num(IntClamp(IF C2Usable(ev.item) THEN JSONParse(ev.item.text).topPct.v
                                 ELSE OrElse(ev.initial.topPct, 65).v,
                                 minTopPct, 100 - minBottomPct))
        /\ leftPct = Num(IntClamp(IF C2Usable(ev.item) THEN JSONParse(ev.item.text).leftPct.v
                                  ELSE OrElse(ev.initial.leftPct, 50).v,
                                  minLeftPct, 100 - minRightPct))

(* C3. Home is clamped: Home on the vertical handle sets leftPct to        *)
(* clamp(50, minLeftPct, 100 - minRightPct), Home on the horizontal handle *)
(* sets topPct to clamp(66, minTopPct, 100 - minBottomPct).                *)
C3_HomeClamped ==
    (ev.kind = "keydown" /\ ev.key = "Home" /\ ValidConfig) =>
        /\ ev.target = "vertical" => leftPct = Num(IntClamp(50, minLeftPct, 100 - minRightPct))
        /\ ev.target = "horizontal" => topPct = Num(IntClamp(66, minTopPct, 100 - minBottomPct))

(* C4. Missing geometry is a no-op: a pointer-move during a drag whose     *)
(* consulted rectangle has zero width or height leaves topPct and leftPct  *)
(* unchanged and raises no error.                                          *)
C4Unmeasurable(rect) == rect.width = 0 \/ rect.height = 0

C4_MissingGeometryNoOp ==
    [][ ( /\ ev'.kind = "pointermove"
          /\ dragRef # null
          /\ C4Unmeasurable(IF dragRef = "horizontal" THEN ev'.containerRect ELSE ev'.topAreaRect) )
        => (topPct' = topPct /\ leftPct' = leftPct /\ ~ev'.threw) ]_vars

(* C5. Drag geometry is absolute: after a pointer-move in a vertical drag  *)
(* leftPct = clamp(100 * (clientX - rect.left) / rect.width, ...), in a    *)
(* horizontal drag topPct = clamp(100 * (clientY - rect.top) /             *)
(* rect.height, ...): a function of that event and rectangle alone.        *)
C5_DragGeometryAbsolute ==
    (ev.kind = "pointermove" /\ dragRef # null) =>
        /\ (dragRef = "vertical" /\ ev.topAreaRect.width # 0) =>
              leftPct = PctClamped(ev.clientX, ev.topAreaRect.left, ev.topAreaRect.width,
                                   minLeftPct, 100 - minRightPct)
        /\ (dragRef = "horizontal" /\ ev.containerRect.height # 0) =>
              topPct = PctClamped(ev.clientY, ev.containerRect.top, ev.containerRect.height,
                                  minTopPct, 100 - minBottomPct)

\* width 400 at left 100, clientX 300: 50
C5_Witness ==
    /\ ev.kind = "pointermove" /\ dragRef = "vertical"
    /\ ev.clientX = 300 /\ ev.topAreaRect.left = 100 /\ ev.topAreaRect.width = 400
    /\ minLeftPct = 15 /\ minRightPct = 15
    /\ leftPct = Num(50)

(* C6. Drag confinement: when the two rectangles differ, a vertical drag   *)
(* computes leftPct from the top region's rectangle and a horizontal drag  *)
(* computes topPct from the whole surface's rectangle; the other           *)
(* rectangle's value is not the one stored wherever the two disagree.      *)
C6FromRect(rect) ==
    IF dragRef = "vertical"
    THEN PctClamped(ev.clientX, rect.left, rect.width, minLeftPct, 100 - minRightPct)
    ELSE PctClamped(ev.clientY, rect.top, rect.height, minTopPct, 100 - minBottomPct)

C6Own == IF dragRef = "vertical" THEN ev.topAreaRect ELSE ev.containerRect
C6Other == IF dragRef = "vertical" THEN ev.containerRect ELSE ev.topAreaRect
C6Ratio == IF dragRef = "vertical" THEN leftPct ELSE topPct

C6_DragConfinement ==
    ( /\ ev.kind = "pointermove" /\ dragRef # null
      /\ ev.containerRect # ev.topAreaRect
      /\ ~C4Unmeasurable(ev.containerRect) /\ ~C4Unmeasurable(ev.topAreaRect) )
    => /\ C6Ratio = C6FromRect(C6Own)
       /\ C6FromRect(C6Other) # C6FromRect(C6Own) => C6Ratio # C6FromRect(C6Other)

\* the surface gives (300 - 100) / 400 = 50, the top region would give 100, clamped to 80
C6_Witness ==
    /\ ev.kind = "pointermove" /\ dragRef = "horizontal"
    /\ ev.clientY = 300 /\ ev.containerRect = Rect(0, 100, 200, 400)
    /\ ev.topAreaRect = Rect(100, 100, 400, 200)
    /\ minTopPct = 20 /\ minBottomPct = 20
    /\ topPct = Num(50)

(* C7. Keyboard step: ArrowLeft and ArrowRight on the vertical handle set  *)
(* leftPct to clamp(leftPct -/+ 2, ...), ArrowUp and ArrowDown on the      *)
(* horizontal handle set topPct to clamp(topPct -/+ 2, ...); a run of n    *)
(* presses from an in-range value moves it by 2n, saturating at the bound, *)
(* and Home on the vertical handle then gives 50.                          *)
C7Stepped(v, d, lo, hi) == IF v.tag = "number" THEN Num(IntClamp(v.v + d, lo, hi)) ELSE v

C7Step ==
    (ev'.kind = "keydown" /\ nKeys' = nKeys + 1) =>
        /\ (ev'.target = "vertical" /\ ev'.key = "ArrowLeft") =>
              leftPct' = C7Stepped(leftPct, -2, minLeftPct, 100 - minRightPct)
        /\ (ev'.target = "vertical" /\ ev'.key = "ArrowRight") =>
              leftPct' = C7Stepped(leftPct, 2, minLeftPct, 100 - minRightPct)
        /\ (ev'.target = "horizontal" /\ ev'.key = "ArrowUp") =>
              topPct' = C7Stepped(topPct, -2, minTopPct, 100 - minBottomPct)
        /\ (ev'.target = "horizontal" /\ ev'.key = "ArrowDown") =>
              topPct' = C7Stepped(topPct, 2, minTopPct, 100 - minBottomPct)

C7Compose ==
    (ev.kind = "keydown" /\ ValidConfig) =>
        /\ ( /\ ev.target = "vertical"
             /\ InRange(run.from, minLeftPct, 100 - minRightPct) ) =>
              /\ ev.key = "ArrowLeft" =>
                    leftPct = Num(IntClamp(run.from.v - 2 * run.n, minLeftPct, 100 - minRightPct))
              /\ ev.key = "ArrowRight" =>
                    leftPct = Num(IntClamp(run.from.v + 2 * run.n, minLeftPct, 100 - minRightPct))
              /\ (ev.key = "Home" /\ minLeftPct <= 50 /\ 50 <= 100 - minRightPct) =>
                    leftPct = Num(50)
        /\ ( /\ ev.target = "horizontal"
             /\ InRange(run.from, minTopPct, 100 - minBottomPct) ) =>
              /\ ev.key = "ArrowUp" =>
                    topPct = Num(IntClamp(run.from.v - 2 * run.n, minTopPct, 100 - minBottomPct))
              /\ ev.key = "ArrowDown" =>
                    topPct = Num(IntClamp(run.from.v + 2 * run.n, minTopPct, 100 - minBottomPct))

C7_KeyboardStep == [][C7Step /\ C7Compose']_vars

\* from 50 under the bounds 15/15, five ArrowLeft presses give 40
C7_Witness ==
    /\ ev.kind = "keydown" /\ ev.target = "vertical" /\ ev.key = "ArrowLeft"
    /\ run.n = 5 /\ run.from = Num(50)
    /\ minLeftPct = 15 /\ minRightPct = 15
    /\ leftPct = Num(40)

(* C8. No-op off-drag move: a pointer-move while no drag is active leaves  *)
(* topPct, leftPct and the drag session unchanged, for any position and    *)
(* geometry.                                                               *)
C8_NoOpOffDragMove ==
    [][ (ev'.kind = "pointermove" /\ dragRef = null)
        => (topPct' = topPct /\ leftPct' = leftPct /\ dragRef' = null) ]_vars

\* an idle move has been dispatched, over an unmeasurable surface
C8_Witness ==
    /\ ev.kind = "pointermove" /\ dragRef = null /\ mounted
    /\ ev.clientX = 300 /\ ev.containerRect = ZeroRect

(* C9. Persistence round-trip: with a key and a working store, once an     *)
(* in-range pair has been persisted, mounting a component with the same    *)
(* key and bounds yields exactly that pair, whatever the initial prop.     *)
C9_RoundTrip ==
    [][ ( /\ ev'.kind = "mount"
          /\ storageKey # null /\ storeMode = "ok"
          /\ saved.set
          /\ InRange(saved.topPct, minTopPct, 100 - minBottomPct)
          /\ InRange(saved.leftPct, minLeftPct, 100 - minRightPct) )
        => (topPct' = saved.topPct /\ leftPct' = saved.leftPct) ]_vars

\* 67 is no initial and no stored choice: it was reached by ArrowDown from 65,
\* persisted, and read back by a mount whose initial prop says 10/90
C9_Witness ==
    /\ ev.kind = "mount" /\ ev.initial.topPct = Num(10) /\ ev.initial.leftPct = Num(90)
    /\ storageKey # null /\ storeMode = "ok"
    /\ topPct = Num(67) /\ leftPct = Num(50)

(* C10. Corrupt storage fallback: with a key set, if the item is missing,  *)
(* is not JSON, lacks a numeric topPct or leftPct, or the read fails, the  *)
(* mount yields initial.topPct ?? 65 and initial.leftPct ?? 50 and raises  *)
(* no error; a partially valid object contributes neither field.           *)
C10NoStoredValue ==
    \/ storeMode = "unavailable"
    \/ ~ev.item.present
    \/ ev.item.text = <<"not", "json">>
    \/ ev.item.text = <<"{", KeyTop, ":", "7", "0", "}">>
    \/ \E i \in 1..Len(ev.item.text) : ev.item.text[i] = "null"

C10_CorruptFallback ==
    (ev.kind = "mount" /\ storageKey # null /\ C10NoStoredValue) =>
        /\ topPct = OrElse(ev.initial.topPct, 65)
        /\ leftPct = OrElse(ev.initial.leftPct, 50)
        /\ ~ev.threw

\* "not json" under the key, no initial prop: 65/50
C10_Witness ==
    /\ ev.kind = "mount" /\ storageKey # null
    /\ ev.item = Item(<<"not", "json">>) /\ ~ev.initial.given
    /\ topPct = Num(65) /\ leftPct = Num(50)

(* C11. Storage write failure is swallowed: with a key set and a store     *)
(* that refuses writes, every operation raises no error, leaves the store  *)
(* as it was, and the in-memory topPct and leftPct take the same new       *)
(* values as they do with a working store.                                 *)
C11Drag ==
    (ev'.kind = "pointermove" /\ dragRef # null) =>
        /\ (dragRef = "vertical" /\ ev'.topAreaRect.width # 0) =>
              leftPct' = PctClamped(ev'.clientX, ev'.topAreaRect.left, ev'.topAreaRect.width,
                                    minLeftPct, 100 - minRightPct)
        /\ (dragRef = "horizontal" /\ ev'.containerRect.height # 0) =>
              topPct' = PctClamped(ev'.clientY, ev'.containerRect.top, ev'.containerRect.height,
                                   minTopPct, 100 - minBottomPct)

C11Home ==
    (ev'.kind = "keydown" /\ ev'.key = "Home") =>
        /\ ev'.target = "vertical" => leftPct' = Num(50)
        /\ ev'.target = "horizontal" => topPct' = Num(66)

C11_WriteFailureSwallowed ==
    [][ ( /\ storageKey # null /\ storeMode # "ok"
          /\ ev'.kind \in {"mount", "pointermove", "keydown"} )
        => /\ ~ev'.threw
           /\ mounted'
           /\ localStorage' = localStorage
           /\ C11Drag /\ C7Step /\ C11Home ]_vars

\* setItem throws on quota; ArrowDown from the stored 70 still gives 72 in memory
C11_Witness ==
    /\ storageKey # null /\ storeMode = "quota"
    /\ ev.kind = "keydown" /\ ev.target = "horizontal" /\ ev.key = "ArrowDown"
    /\ topPct = Num(72) /\ ~ev.threw /\ ~saved.set
    /\ localStorage[storageKey] = ValidItem

(* C12. Degenerate configuration: when an axis's range has min > max,      *)
(* clamping collapses every value other than NaN to the range's max, so    *)
(* after a drag move or an arrow key on that axis the ratio equals         *)
(* 100 - minRightPct (100 - minBottomPct); it is NaN when the move's       *)
(* rectangle has no extent with the pointer at its origin, or when the     *)
(* ratio was NaN before the key.                                           *)
C12DegenerateLeft == minLeftPct > 100 - minRightPct
C12DegenerateTop == minTopPct > 100 - minBottomPct

C12MoveLeft == C12DegenerateLeft /\ ev.kind = "pointermove" /\ dragRef = "vertical"
C12MoveTop == C12DegenerateTop /\ ev.kind = "pointermove" /\ dragRef = "horizontal"
C12KeyLeft ==
    /\ C12DegenerateLeft /\ ev.kind = "keydown" /\ ev.target = "vertical"
    /\ ev.key \in {"ArrowLeft", "ArrowRight"}
C12KeyTop ==
    /\ C12DegenerateTop /\ ev.kind = "keydown" /\ ev.target = "horizontal"
    /\ ev.key \in {"ArrowUp", "ArrowDown"}

C12_DegenerateCollapsesToMax ==
    /\ C12MoveLeft =>
          leftPct = IF ev.topAreaRect.width = 0 /\ ev.clientX = ev.topAreaRect.left
                    THEN NaN ELSE Num(100 - minRightPct)
    /\ C12MoveTop =>
          topPct = IF ev.containerRect.height = 0 /\ ev.clientY = ev.containerRect.top
                   THEN NaN ELSE Num(100 - minBottomPct)
    /\ C12KeyLeft => leftPct = IF run.from = NaN THEN NaN ELSE Num(100 - minRightPct)
    /\ C12KeyTop => topPct = IF run.from = NaN THEN NaN ELSE Num(100 - minBottomPct)

\* the claim as stated: the ratio equals the range's min, here for a
\* measurable rectangle and a numeric ratio
C12_DegenerateCollapsesToMin ==
    /\ (C12MoveLeft /\ ev.topAreaRect.width # 0) => leftPct = Num(minLeftPct)
    /\ (C12MoveTop /\ ev.containerRect.height # 0) => topPct = Num(minTopPct)
    /\ (C12KeyLeft /\ IsFinite(run.from)) => leftPct = Num(minLeftPct)
    /\ (C12KeyTop /\ IsFinite(run.from)) => topPct = Num(minTopPct)

\* bounds 60/60 on the left axis: the range is [60, 40] and a move gives 40
C12_Witness ==
    /\ minLeftPct = 60 /\ minRightPct = 60
    /\ ev.kind = "pointermove" /\ dragRef = "vertical" /\ ev.topAreaRect.width = 400
    /\ leftPct = Num(40)

(* C13. Idempotent clamping: for every value x and every pair of bounds,   *)
(* min > max included, clamp(clamp(x, min, max), min, max) equals          *)
(* clamp(x, min, max).                                                     *)
C13_ClampIdempotent == probe.n = 2 => probe.twice = probe.once

\* min 80 > max 40: 60 collapses to 40 and stays there
C13_Witness ==
    /\ probe.n = 2 /\ probe.x = Num(60) /\ probe.min = Num(80) /\ probe.max = Num(40)
    /\ probe.once = Num(40) /\ probe.twice = Num(40)

(* C14. Drag lifecycle: a pointer-down on a handle leaves a drag active    *)
(* with that handle's axis; a pointer-up or pointer-cancel leaves none     *)
(* active, and pointer-moves then change nothing until the next            *)
(* pointer-down; no pointer-move and no key-down ends or alters the drag,  *)
(* so among the events only pointer-up and pointer-cancel end one.         *)
C14Ends == {"pointerup", "pointercancel"}

C14_DragLifecycle ==
    [][ /\ ev'.kind = "pointerdown" => dragRef' = ev'.target
        /\ ev'.kind \in C14Ends => dragRef' = null
        /\ ev'.kind \in {"pointermove", "keydown"} => dragRef' = dragRef
        /\ (ev'.kind = "pointermove" /\ ev.kind \in C14Ends) =>
              (topPct' = topPct /\ leftPct' = leftPct)
        /\ (dragRef # null /\ dragRef' = null) => ev'.kind \in C14Ends \cup {"unmount"} ]_vars

\* a topPct of 50 is no initial and no stored choice: a horizontal drag put it
\* there, and the pointer-cancel that ended the drag left it
C14_Witness ==
    /\ ev.kind = "pointercancel" /\ dragRef = null /\ mounted
    /\ minTopPct = 20 /\ topPct = Num(50)

(* C17. Single session, last event wins: there is at most one drag         *)
(* session; a pointer-down while one is active replaces its axis with the  *)
(* new handle's, later pointer-moves resize only that axis, and a          *)
(* pointer-up or pointer-cancel of any pointer ends the session, whichever *)
(* pointer started it.                                                     *)
C17_LastEventWins ==
    [][ /\ dragRef' \in {null, "horizontal", "vertical"}
        /\ ev'.kind = "pointerdown" => dragRef' = ev'.target
        /\ (ev'.kind = "pointermove" /\ dragRef = "vertical") => topPct' = topPct
        /\ (ev'.kind = "pointermove" /\ dragRef = "horizontal") => leftPct' = leftPct
        /\ (ev'.kind \in {"pointerup", "pointercancel"} /\ ev'.pointerId \in Pointers) =>
              dragRef' = null ]_vars

\* pointer 1 went down and is still held in capture; the pointer-up of
\* pointer 2 ended the session
C17_Witness ==
    /\ ev.kind = "pointerup" /\ ev.pointerId = 2 /\ captured = {1}
    /\ dragRef = null /\ ~selectNone

(* C15. Select-none accompanies the drag: in every reachable state, the    *)
(* state after a teardown in the middle of a drag included, the body       *)
(* carries select-none if and only if a drag session is active.            *)
C15_SelectNoneIffDragging == selectNone <=> (dragRef # null)

(* C16. Persistence mirrors state: with a key set and a working store,     *)
(* after every step of a mounted component the item under the key is the   *)
(* serialization of the current {topPct, leftPct}; with no key, no step    *)
(* writes the store, and a mount takes nothing from it.                    *)
C16_PersistenceMirrorsState ==
    [][ /\ (storageKey # null /\ storeMode = "ok" /\ mounted') =>
              /\ localStorage'[storageKey] = Item(JSONStringify(topPct', leftPct'))
              /\ saved' = [set |-> TRUE, topPct |-> topPct', leftPct |-> leftPct']
        /\ storageKey = null =>
              /\ localStorage' = localStorage
              /\ ~saved'.set
              /\ ev'.kind = "mount" =>
                    /\ topPct' = OrElse(ev'.initial.topPct, 65)
                    /\ leftPct' = OrElse(ev'.initial.leftPct, 50) ]_vars

\* a horizontal drag moved topPct to 50, and the item follows
C16_Witness ==
    /\ storageKey # null /\ storeMode = "ok"
    /\ ev.kind = "pointermove" /\ dragRef = "horizontal"
    /\ topPct = Num(50) /\ leftPct = Num(50)
    /\ localStorage[storageKey] =
          Item(<<"{", KeyTop, ":", "5", "0", ",", KeyLeft, ":", "5", "0", "}">>)

(* C18. The keyboard never touches the drag state: a key-down that the     *)
(* focused handle does not handle leaves topPct, leftPct and the drag      *)
(* session unchanged and does not prevent the default action; a handled    *)
(* key prevents the default action and neither creates, changes nor ends   *)
(* a drag session.                                                         *)
C18Handled ==
    \/ ev'.target = "vertical" /\ ev'.key \in {"ArrowLeft", "ArrowRight", "Home"}
    \/ ev'.target = "horizontal" /\ ev'.key \in {"ArrowUp", "ArrowDown", "Home"}

C18_KeyboardLeavesDrag ==
    [][ ev'.kind = "keydown" =>
          /\ dragRef' = dragRef /\ selectNone' = selectNone
          /\ C18Handled => ev'.defaultPrevented
          /\ ~C18Handled => /\ ~ev'.defaultPrevented
                             /\ topPct' = topPct /\ leftPct' = leftPct ]_vars

\* ArrowUp on the vertical handle, in the middle of a vertical drag
C18_Witness ==
    /\ ev.kind = "keydown" /\ ev.target = "vertical" /\ ev.key = "ArrowUp"
    /\ dragRef = "vertical" /\ selectNone /\ ~ev.defaultPrevented

(* C19. Axis independence: a move of a vertical drag and a key-down on the *)
(* vertical handle leave topPct unchanged, a move of a horizontal drag and *)
(* a key-down on the horizontal handle leave leftPct unchanged, and        *)
(* pointer-down, pointer-up and pointer-cancel change neither.             *)
C19_AxisIndependence ==
    [][ /\ (ev'.kind = "pointermove" /\ dragRef = "vertical") => topPct' = topPct
        /\ (ev'.kind = "pointermove" /\ dragRef = "horizontal") => leftPct' = leftPct
        /\ (ev'.kind = "keydown" /\ ev'.target = "vertical") => topPct' = topPct
        /\ (ev'.kind = "keydown" /\ ev'.target = "horizontal") => leftPct' = leftPct
        /\ ev'.kind \in {"pointerdown", "pointerup", "pointercancel"} =>
              (topPct' = topPct /\ leftPct' = leftPct) ]_vars

\* ArrowDown took topPct from 65 to 67; a vertical drag then moved leftPct to 15
C19_Witness ==
    /\ ev.kind = "pointermove" /\ dragRef = "vertical"
    /\ minLeftPct = 15 /\ leftPct = Num(15) /\ topPct = Num(67)

(* C20. Mount writes the seeded state: with a key set and a working store, *)
(* right after a mount the item under the key is the serialization of the  *)
(* pair the component was seeded with, whatever was there before: missing, *)
(* corrupt or out-of-range content is overwritten.                         *)
C20_MountWritesSeed ==
    (ev.kind = "mount" /\ storageKey # null /\ storeMode = "ok") =>
        /\ localStorage[storageKey] = Item(JSONStringify(topPct, leftPct))
        /\ saved = [set |-> TRUE, topPct |-> topPct, leftPct |-> leftPct]

\* the item held 95/5; the mount clamped it to 80/15 and wrote that back
C20_Witness ==
    /\ ev.kind = "mount" /\ storageKey # null /\ storeMode = "ok"
    /\ <<minTopPct, minBottomPct, minLeftPct, minRightPct>> = <<20, 20, 15, 15>>
    /\ ev.item = ClampedItem
    /\ localStorage[storageKey] =
          Item(<<"{", KeyTop, ":", "8", "0", ",", KeyLeft, ":", "1", "5", "}">>)

====
